---- MODULE Spec2Model ----
(***************************************************************************)
(* Conversation continuity of the conductor MCP server: the process-wide   *)
(* ConversationMemoryManager (src/utils/memory.ts) and the tools that      *)
(* resolve, replay and extend conversations around one backend call        *)
(* (chat, thinkdeep, debug, planner, consensus, codereview, precommit).    *)
(*                                                                         *)
(* Time is scaled: one clock unit stands for 24 hours, so the retention    *)
(* window is 1 unit; the capacity of 100 conversations is scaled to 2.     *)
(***************************************************************************)
EXTENDS Integers, Sequences, FiniteSets, TLC

----------------------------------------------------------------------------
(* Bounds of the model *)

\* the clock runs from 0 to MaxTime
MaxTime == 2
\* tool invocations in one behaviour
MaxCalls == 2
\* direct calls of the store's API in one behaviour of the store alone
MaxDirect == 4
\* direct calls of the store's API in one behaviour beside the tools
MaxBeside == 1
\* the values Math.random() may take where its draws are not taken to differ
MaxRandom == 2
\* step_number and total_steps range over 1..MaxStep
MaxStep == 2
\* a streamed response body has at most MaxBody characters
MaxBody == 4
\* current_model_index ranges over 0..MaxIndex
MaxIndex == 2

----------------------------------------------------------------------------
(* Program constants, scaled *)

\* private maxConversations: number = 100
maxConversations == 2
\* private maxAge: number = 24 * 60 * 60 * 1000
maxAge == 1

----------------------------------------------------------------------------
(* Values *)

\* continuation_id undefined (or the empty string): falsy in `if (continuation_id)`
NoId == <<>>
\* a continuation id that generateId never produces, "does-not-exist"
DoesNotExist == <<0, 0>>

ChatTool == "chat"
StepTools == {"thinkdeep", "debug", "planner", "consensus", "codereview", "precommit"}
Tools == {ChatTool} \cup StepTools

\* thinking_mode: "none" stands for an omitted thinking_mode
ThinkingModes == {"none", "high"}

\* metadata objects are functions from key to value; create() without metadata
\* stores undefined, which spreads like the empty object
NoMetadata == [k \in {} |-> ""]

\* messages of the store's direct callers
DirectMessages == {[role |-> "user", content |-> 0], [role |-> "assistant", content |-> 0]}

VARIABLES
  conversations,  \* Map<string, ConversationMemory>, in insertion order
  now,            \* Date.now()
  issued,         \* every id generateId has returned
  calls,          \* the tool invocations, in order of invocation
  direct,         \* number of direct calls of the store's API so far
  last,           \* the operation that led to this state
  config,         \* export const config = loadConfig()
  stream          \* one chatStream() generator: the response body and its progress

vars == <<conversations, now, issued, calls, direct, last, config, stream>>

----------------------------------------------------------------------------
(* The Map of conversations *)

Ids(convs) == {convs[i].id : i \in 1..Len(convs)}

Has(convs, id) == id \in Ids(convs)

\* Map.get: the record, for an id the map holds
get(convs, id) == convs[CHOOSE i \in 1..Len(convs) : convs[i].id = id]

\* Map.set: a known key keeps its place, a new key goes last
MapSet(convs, rec) ==
  IF Has(convs, rec.id)
  THEN [i \in 1..Len(convs) |-> IF convs[i].id = rec.id THEN rec ELSE convs[i]]
  ELSE Append(convs, rec)

\* Map.delete
MapDelete(convs, id) == SelectSeq(convs, LAMBDA c : c.id # id)

size(convs) == Len(convs)

getMessages(convs, id) == IF Has(convs, id) THEN get(convs, id).messages ELSE <<>>

\* a sort that puts the later inserted first among equal updated_at values
SortedTiesReversed(convs) ==
  LET n == Len(convs)
      Before(i, j) == \/ convs[i].updated_at < convs[j].updated_at
                      \/ convs[i].updated_at = convs[j].updated_at /\ i > j
      Pos(i) == 1 + Cardinality({j \in 1..n : Before(j, i)})
  IN [k \in 1..n |-> convs[CHOOSE i \in 1..n : Pos(i) = k]]

\* Array.prototype.sort with (a, b) => a.updated_at - b.updated_at: stable
SortedByUpdatedAt(convs) ==
  LET n == Len(convs)
      Before(i, j) == \/ convs[i].updated_at < convs[j].updated_at
                      \/ convs[i].updated_at = convs[j].updated_at /\ i < j
      Pos(i) == 1 + Cardinality({j \in 1..n : Before(j, i)})
  IN [k \in 1..n |-> convs[CHOOSE i \in 1..n : Pos(i) = k]]

\* a cleanup that skips the count phase
CleanupNoCountPhase(convs, t) ==
  SelectSeq(convs, LAMBDA c : ~(t - c.updated_at > maxAge))

\* a cleanup that skips the age phase
CleanupNoAgePhase(convs, t) ==
  IF Len(convs) > maxConversations
  THEN LET sorted == SortedByUpdatedAt(convs)
           toRemove == {sorted[i].id : i \in 1..(Len(convs) - maxConversations)}
       IN SelectSeq(convs, LAMBDA c : c.id \notin toRemove)
  ELSE convs

\* a cleanup whose count phase drops the newest entries
CleanupDropsNewest(convs, t) ==
  LET aged == SelectSeq(convs, LAMBDA c : ~(t - c.updated_at > maxAge))
  IN IF Len(aged) > maxConversations
     THEN LET sorted == SortedByUpdatedAt(convs)
              n == Len(sorted)
              k == Len(aged) - maxConversations
              toRemove == {sorted[i].id : i \in (n - k + 1)..n}
          IN SelectSeq(aged, LAMBDA c : c.id \notin toRemove)
     ELSE aged

\* cleanup(): the age phase deletes from the map; the count phase sorts the
\* snapshot taken before the age phase and deletes its first size - max entries
cleanup(convs, t) ==
  LET aged == SelectSeq(convs, LAMBDA c : ~(t - c.updated_at > maxAge))
  IN IF Len(aged) > maxConversations
     THEN LET sorted == SortedByUpdatedAt(convs)
              toRemove == {sorted[i].id : i \in 1..(Len(aged) - maxConversations)}
          IN SelectSeq(aged, LAMBDA c : c.id \notin toRemove)
     ELSE aged

\* create(initialMessages, metadata) with the generated id
create(convs, id, t, initialMessages, metadata) ==
  cleanup(MapSet(convs, [id |-> id, messages |-> initialMessages, metadata |-> metadata,
                         created_at |-> t, updated_at |-> t]), t)

\* an addMessage that stores nothing
addMessageDropped(convs, id, message, t) == convs

\* an addMessage that puts the message first (unshift instead of push)
addMessageUnshift(convs, id, message, t) ==
  IF Has(convs, id)
  THEN [i \in 1..Len(convs) |->
          IF convs[i].id = id
          THEN [convs[i] EXCEPT !.messages = <<message>> \o @, !.updated_at = t]
          ELSE convs[i]]
  ELSE convs

\* an addMessage that creates the conversation an unknown id names
addMessageCreates(convs, id, message, t) ==
  IF Has(convs, id)
  THEN [i \in 1..Len(convs) |->
          IF convs[i].id = id
          THEN [convs[i] EXCEPT !.messages = Append(@, message), !.updated_at = t]
          ELSE convs[i]]
  ELSE Append(convs, [id |-> id, messages |-> <<message>>, metadata |-> NoMetadata,
                      created_at |-> t, updated_at |-> t])

\* an addMessage that leaves updated_at as it was
addMessageNoStamp(convs, id, message, t) ==
  IF Has(convs, id)
  THEN [i \in 1..Len(convs) |->
          IF convs[i].id = id
          THEN [convs[i] EXCEPT !.messages = Append(@, message)]
          ELSE convs[i]]
  ELSE convs

\* addMessage(id, message)
addMessage(convs, id, message, t) ==
  IF Has(convs, id)
  THEN [i \in 1..Len(convs) |->
          IF convs[i].id = id
          THEN [convs[i] EXCEPT !.messages = Append(@, message), !.updated_at = t]
          ELSE convs[i]]
  ELSE convs

\* an updateMetadata that replaces the metadata object
updateMetadataReplaces(convs, id, metadata, t) ==
  IF Has(convs, id)
  THEN [i \in 1..Len(convs) |->
          IF convs[i].id = id
          THEN [convs[i] EXCEPT !.metadata = metadata, !.updated_at = t]
          ELSE convs[i]]
  ELSE convs

\* updateMetadata(id, metadata): { ...conversation.metadata, ...metadata }
updateMetadata(convs, id, metadata, t) ==
  IF Has(convs, id)
  THEN [i \in 1..Len(convs) |->
          IF convs[i].id = id
          THEN [convs[i] EXCEPT
                  !.metadata = [k \in DOMAIN @ \cup DOMAIN metadata |->
                                  IF k \in DOMAIN metadata THEN metadata[k] ELSE @[k]],
                  !.updated_at = t]
          ELSE convs[i]]
  ELSE convs

\* generateId(): conv_${Date.now()}_${Math.random()...}, the pair of the clock
\* value and the random part; two draws of Math.random() at one clock value are
\* taken to differ, the n-th draw at a clock value being n
generateId(t) == <<t, 1 + Cardinality({id \in issued : id[1] = t})>>

\* generateId() with the random part as drawn: the string is made of the clock
\* value and the random part and nothing else
generateIdDrawn(t, random) == <<t, random>>

\* what an operation removed: the (id, updated_at) of every entry of before
\* whose id after no longer holds
Removed(before, after) ==
  {<<before[i].id, before[i].updated_at>> : i \in {j \in 1..Len(before) : ~Has(after, before[j].id)}}

----------------------------------------------------------------------------
(* chatStream(): the streamed response body, read piece by piece *)

\* the characters of a response body: two digits, a letter, a blank, a newline.
\* A line is well-formed JSON when, blanks at its ends aside, it is a number
\* literal, a non-empty string of digits; anything else is malformed
Digits == {"1", "2"}
Blanks == {" "}
Newline == "\n"
Chars == Digits \cup Blanks \cup {"x", Newline}

Bodies == UNION {[1..n -> Chars] : n \in 0..MaxBody}

\* no chatStream() has been called
NoStream == [pc |-> "none", ok |-> TRUE, body |-> <<>>, rest |-> <<>>, buffer |-> <<>>,
             yielded |-> <<>>, cut |-> FALSE]

\* String.prototype.split("\n"): the pieces between the newlines, one more
\* than there are newlines
RECURSIVE split(_)
split(str) ==
  IF \A i \in 1..Len(str) : str[i] # Newline THEN <<str>>
  ELSE LET i == CHOOSE j \in 1..Len(str) :
                  str[j] = Newline /\ \A h \in 1..(j - 1) : str[h] # Newline
       IN <<SubSeq(str, 1, i - 1)>> \o split(SubSeq(str, i + 1, Len(str)))

\* String.prototype.trim()
RECURSIVE trim(_)
trim(str) ==
  IF str = <<>> THEN str
  ELSE IF str[1] \in Blanks \cup {Newline} THEN trim(Tail(str))
  ELSE IF str[Len(str)] \in Blanks \cup {Newline} THEN trim(SubSeq(str, 1, Len(str) - 1))
  ELSE str

\* whether JSON.parse(str) returns: blanks at the ends are allowed, the rest is
\* a number literal
Parses(str) == trim(str) # <<>> /\ \A i \in 1..Len(trim(str)) : trim(str)[i] \in Digits

\* the value of a number literal
RECURSIVE NumberOf(_)
NumberOf(digits) ==
  IF digits = <<>> THEN 0
  ELSE 10 * NumberOf(SubSeq(digits, 1, Len(digits) - 1))
         + (IF digits[Len(digits)] = "1" THEN 1 ELSE 2)

\* JSON.parse(str), for a str that parses
JSONparse(str) == NumberOf(trim(str))

\* `if (line.trim()) { try { yield JSON.parse(line) } catch { console.error } }`
\* for every line in turn: the chunks yielded
RECURSIVE yields(_)
yields(lines) ==
  IF lines = <<>> THEN <<>>
  ELSE (IF trim(lines[1]) # <<>> /\ Parses(lines[1]) THEN <<JSONparse(lines[1])>> ELSE <<>>)
         \o yields(Tail(lines))

----------------------------------------------------------------------------
(* The store's API, called directly *)

\* the environment: MAX_CONVERSATIONS as a string of decimal digits, the empty
\* string standing also for an unset variable; both are falsy in
\* `process.env.MAX_CONVERSATIONS || "100"`
Envs == {<<>>, <<1>>, <<3>>, <<1, 0>>}

\* the default "100" of MAX_CONVERSATIONS, scaled like maxConversations
DefaultMaxConversations == <<2>>

\* parseInt(digits, 10)
RECURSIVE parseInt(_)
parseInt(digits) ==
  IF Len(digits) = 1 THEN digits[1]
  ELSE 10 * parseInt(SubSeq(digits, 1, Len(digits) - 1)) + digits[Len(digits)]

\* loadConfig(): the capacity read from the environment
loadConfig(env) ==
  [maxConversations |-> parseInt(IF env = <<>> THEN DefaultMaxConversations ELSE env)]

Init ==
  /\ stream = NoStream
  /\ config = loadConfig(<<>>)
  /\ conversations = <<>>
  /\ now = 0
  /\ issued = {}
  /\ calls = <<>>
  /\ direct = 0
  /\ last = [op |-> "init", id |-> NoId, created |-> FALSE, before |-> 0, removed |-> {}]

\* the process started in any environment
InitConfig ==
  /\ stream = NoStream
  /\ config \in {loadConfig(env) : env \in Envs}
  /\ conversations = <<>>
  /\ now = 0
  /\ issued = {}
  /\ calls = <<>>
  /\ direct = 0
  /\ last = [op |-> "init", id |-> NoId, created |-> FALSE, before |-> 0, removed |-> {}]

Tick ==
  /\ now < MaxTime
  /\ now' = now + 1
  /\ last' = [op |-> "tick", id |-> NoId, created |-> FALSE, before |-> size(conversations), removed |-> {}]
  /\ UNCHANGED <<conversations, issued, calls, direct, config, stream>>

Create(initialMessages, metadata) ==
  /\ LET id == generateId(now)
     IN /\ conversations' = create(conversations, id, now, initialMessages, metadata)
        /\ issued' = issued \cup {id}
        /\ last' = [op |-> "create", id |-> id, created |-> TRUE, before |-> size(conversations),
                    removed |-> Removed(conversations, conversations')]
  /\ direct' = direct + 1
  /\ UNCHANGED <<now, calls, config, stream>>

AddMessage(id, message) ==
  /\ conversations' = addMessage(conversations, id, message, now)
  /\ last' = [op |-> "addMessage", id |-> id, created |-> FALSE, before |-> size(conversations), removed |-> {}]
  /\ direct' = direct + 1
  /\ UNCHANGED <<now, issued, calls, config, stream>>

UpdateMetadata(id, metadata) ==
  /\ conversations' = updateMetadata(conversations, id, metadata, now)
  /\ last' = [op |-> "updateMetadata", id |-> id, created |-> FALSE, before |-> size(conversations), removed |-> {}]
  /\ direct' = direct + 1
  /\ UNCHANGED <<now, issued, calls, config, stream>>

Delete(id) ==
  /\ conversations' = MapDelete(conversations, id)
  /\ last' = [op |-> "delete", id |-> id, created |-> FALSE, before |-> size(conversations),
              removed |-> Removed(conversations, conversations')]
  /\ direct' = direct + 1
  /\ UNCHANGED <<now, issued, calls, config, stream>>

Clear ==
  /\ conversations' = <<>>
  /\ last' = [op |-> "clear", id |-> NoId, created |-> FALSE, before |-> size(conversations),
              removed |-> Removed(conversations, conversations')]
  /\ direct' = direct + 1
  /\ UNCHANGED <<now, issued, calls, config, stream>>

\* create() where Math.random() may return any value, also one it returned before
CreateDrawn(random, initialMessages, metadata) ==
  /\ LET id == generateIdDrawn(now, random)
     IN /\ conversations' = create(conversations, id, now, initialMessages, metadata)
        /\ issued' = issued \cup {id}
        /\ last' = [op |-> "create", id |-> id, created |-> TRUE, before |-> size(conversations),
                    removed |-> Removed(conversations, conversations')]
  /\ direct' = direct + 1
  /\ UNCHANGED <<now, calls, config, stream>>

----------------------------------------------------------------------------
(* The tools: execute() up to the backend call, then the reply or the failure *)

\* the metadata a tool passes to create (model, path and review_type are not
\* enumerated); thinkdeep defaults thinking_mode to "high"
Metadata(tool, tm) ==
  IF tool = ChatTool THEN [thinking_mode |-> tm]
  ELSE IF tool = "thinkdeep" THEN [tool |-> tool, thinking_mode |-> IF tm = "none" THEN "high" ELSE tm]
  ELSE IF tool = "debug" THEN [tool |-> tool, thinking_mode |-> tm]
  ELSE [tool |-> tool]

\* whether the tool adds a system message to an empty messages array
SystemWanted(tool, tm) ==
  IF tool \in {ChatTool, "debug"} THEN tm # "none" ELSE TRUE

\* the messages of invocation k
User(k) == [role |-> "user", content |-> k]
System(k) == [role |-> "system", content |-> k]
Assistant(k) == [role |-> "assistant", content |-> k]

\* a chat tool that keeps the stored array, as the step-based tools do
KeepsStoredArrayAll(tool) == TRUE

\* a step-based tool that copies the stored messages, as the chat tool does
KeepsStoredArrayNone(tool) == FALSE

\* chat copies the stored messages ([...existingMessages]); the step-based tools
\* assign the array getMessages returns, which is the stored one
KeepsStoredArray(tool) == tool \in StepTools

\* messages.push on an array that is the stored array of conversation id:
\* the stored messages grow, updated_at does not change
PushStored(convs, id, msgs) ==
  [i \in 1..Len(convs) |->
     IF convs[i].id = id THEN [convs[i] EXCEPT !.messages = @ \o msgs] ELSE convs[i]]

\* a resolution that takes every supplied id for a live conversation
ReusesAnySupplied(convs, cont) == cont # NoId

\* a resolution that reuses every conversation the store holds, empty or not
ReusesAnyStored(convs, cont) == cont # NoId /\ Has(convs, cont)

\* a resolution that never reuses
ReusesNever(convs, cont) == FALSE

\* a resolution that reuses only conversations within the retention window
ReusesOnlyFresh(convs, cont) ==
  /\ cont # NoId
  /\ Len(getMessages(convs, cont)) > 0
  /\ ~(now - get(convs, cont).updated_at > maxAge)

\* the conversation resolution: a supplied id with at least one stored message
Reuses(convs, cont) == cont # NoId /\ Len(getMessages(convs, cont)) > 0

----------------------------------------------------------------------------
(* The workflow step protocol: the prompt a step-based tool builds from its   *)
(* input and the status block it appends to the reply. A prompt is the        *)
(* sequence of its sections and a status block the sequence of its lines,     *)
(* each with the input values it names; the echoed free texts (step,          *)
(* findings, files, issues, hypothesis) are not enumerated.                   *)

Line(label, step, total, name, stance, id) ==
  [label |-> label, step |-> step, total |-> total, name |-> name, stance |-> stance, id |-> id]

Plain(label) == Line(label, 0, 0, "", "", NoId)

\* model: z.string().default("qwen2.5:latest"), and the literal of consensus
DefaultModel == "qwen2.5:latest"

\* the step fields every step-based tool reads; total_steps is the caller's
\* estimate and only echoed
StepNumbers == 1..MaxStep

StepArgs == [step_number : StepNumbers, total_steps : {MaxStep}, next_step_required : BOOLEAN]

\* planner: is_step_revision = false, is_branch_point = false, the other markers
\* undefined; an undefined number is 0 and an undefined string "", falsy alike
PlannerDefaults ==
  [is_step_revision |-> FALSE, revises_step_number |-> 0,
   is_branch_point |-> FALSE, branch_id |-> "", branch_from_step |-> 0]

\* the planner's inputs: the step fields and every combination of markers
PlannerArgs ==
  {a @@ m : a \in StepArgs,
            m \in [is_step_revision : BOOLEAN, revises_step_number : 0..MaxStep,
                   is_branch_point : BOOLEAN, branch_id : {"", "alt-1"},
                   branch_from_step : 0..MaxStep]}

\* consensus: current_model_index = 0; two participants, the second without
\* a stance
Participants ==
  <<[model |-> "llama3.1:latest", stance |-> "for"], [model |-> "mistral:7b", stance |-> ""]>>

ConsensusDefaults == [models |-> Participants, current_model_index |-> 0]

\* the consensus inputs: no, one or two participants and any index
ConsensusArgs ==
  {a @@ m : a \in StepArgs,
            m \in [models : {SubSeq(Participants, 1, n) : n \in 0..Len(Participants)},
                   current_model_index : 0..MaxIndex]}

Defaults(tool) ==
  IF tool = "planner" THEN PlannerDefaults
  ELSE IF tool = "consensus" THEN ConsensusDefaults
  ELSE [k \in {} |-> 0]

\* the inputs of a step-based tool with the tool's own fields at their defaults
ArgsOf(tool) ==
  IF tool = ChatTool THEN {[k \in {} |-> 0]}
  ELSE {a @@ Defaults(tool) : a \in StepArgs}

\* a single-step call
DefaultArgs(tool) ==
  IF tool = ChatTool THEN [k \in {} |-> 0]
  ELSE [step_number |-> 1, total_steps |-> 1, next_step_required |-> FALSE] @@ Defaults(tool)

\* `# <title> - Step ${step_number}/${total_steps}`
Title(tool) ==
  CASE tool = "thinkdeep" -> "Deep Thinking Session"
    [] tool = "debug" -> "Debug Investigation"
    [] tool = "planner" -> "Planning Session"
    [] tool = "consensus" -> "Multi-Model Consensus"
    [] tool = "codereview" -> "Code Review"
    [] tool = "precommit" -> "Pre-Commit Validation"

\* the section of step_number === 1
InitialSection(tool) ==
  CASE tool = "thinkdeep" -> "Problem/Question"
    [] tool = "debug" -> "Initial Investigation"
    [] tool = "planner" -> "Project/Task Overview"
    [] tool = "consensus" -> "Proposal/Question"
    [] tool = "codereview" -> "Review Strategy"
    [] tool = "precommit" -> "Validation Strategy"

\* the section of the last else branch
ContinuationSection(tool) ==
  CASE tool = "thinkdeep" -> "Continued Analysis"
    [] tool = "debug" -> "Step"
    [] tool = "planner" -> "Detailed Planning"
    [] tool = "consensus" -> "Consensus Synthesis"
    [] tool = "codereview" -> "Review Progress"
    [] tool = "precommit" -> "Validation Progress"

\* the closing section when next_step_required
ForwardSection(tool) ==
  CASE tool = "thinkdeep" -> "Next Phase"
    [] tool = "debug" -> "Continue investigation"
    [] tool = "planner" -> "Next Planning Phase"
    [] tool = "codereview" -> "Next Review Phase"
    [] tool = "precommit" -> "Next Validation Phase"

\* the closing section otherwise
FinalSection(tool) ==
  CASE tool = "thinkdeep" -> "Final Synthesis"
    [] tool = "debug" -> "This is the final step"
    [] tool = "planner" -> "Final Plan Summary"
    [] tool = "codereview" -> "Review Summary"
    [] tool = "precommit" -> "Final Validation"

\* a planner whose branch markers are looked at before its revision markers
PlannerScenarioBranchFirst(args) ==
  IF args.step_number = 1
  THEN <<Plain(InitialSection("planner"))>>
  ELSE IF args.is_branch_point /\ args.branch_id # "" /\ args.branch_from_step # 0
  THEN <<Line("Alternative Approach - Branch", args.branch_from_step, 0, args.branch_id, "", NoId)>>
  ELSE IF args.is_step_revision /\ args.revises_step_number # 0
  THEN <<Line("Plan Revision", args.revises_step_number, 0, "", "", NoId)>>
  ELSE <<Line(ContinuationSection("planner"), args.step_number, 0, "", "", NoId)>>

\* planner: "Handle different planning scenarios"
PlannerScenario(args) ==
  IF args.step_number = 1
  THEN <<Plain(InitialSection("planner"))>>
  ELSE IF args.is_step_revision /\ args.revises_step_number # 0
  THEN <<Line("Plan Revision", args.revises_step_number, 0, "", "", NoId)>>
  ELSE IF args.is_branch_point /\ args.branch_id # "" /\ args.branch_from_step # 0
  THEN <<Line("Alternative Approach - Branch", args.branch_from_step, 0, args.branch_id, "", NoId)>>
  ELSE <<Line(ContinuationSection("planner"), args.step_number, 0, "", "", NoId)>>

\* modelConfigs[current_model_index], for an index within the list
CurrentConfig(args) == args.models[args.current_model_index + 1]

\* currentModelConfig?.stance || "neutral"
StanceOf(conf) == IF conf.stance = "" THEN "neutral" ELSE conf.stance

\* consensus: the initial analysis, the consultation of one participant, or
\* the final synthesis
ConsensusScenario(args) ==
  IF args.step_number = 1
  THEN <<Plain(InitialSection("consensus"))>>
  ELSE IF args.current_model_index < Len(args.models)
  THEN <<Line("Consulting Model", 0, 0, CurrentConfig(args).model,
              StanceOf(CurrentConfig(args)), NoId)>>
  ELSE <<Plain(ContinuationSection("consensus"))>>

\* the other step-based tools: the first step or a later one
Scenario(tool, args) ==
  IF tool = "planner" THEN PlannerScenario(args)
  ELSE IF tool = "consensus" THEN ConsensusScenario(args)
  ELSE IF args.step_number = 1 THEN <<Plain(InitialSection(tool))>>
  ELSE IF tool = "debug" THEN <<Line(ContinuationSection(tool), args.step_number, 0, "", "", NoId)>>
  ELSE <<Plain(ContinuationSection(tool))>>

\* forward guidance or closing form; consensus has neither
Closing(tool, args) ==
  IF tool = "consensus" THEN <<>>
  ELSE IF args.next_step_required
  THEN <<Line(ForwardSection(tool), IF tool \in {"debug", "planner"} THEN args.step_number + 1 ELSE 0,
              0, "", "", NoId)>>
  ELSE <<Plain(FinalSection(tool))>>

\* a prompt whose title counts the calls made so far instead of echoing the
\* caller's step_number
PromptCounted(tool, args) ==
  IF tool = ChatTool THEN <<>>
  ELSE <<Line(Title(tool), Len(calls) + 1, args.total_steps, "", "", NoId)>>
         \o Scenario(tool, args) \o Closing(tool, args)

\* the prompt of the user message; chat sends the caller's prompt as it is
Prompt(tool, args) ==
  IF tool = ChatTool THEN <<>>
  ELSE <<Line(Title(tool), args.step_number, args.total_steps, "", "", NoId)>>
         \o Scenario(tool, args) \o Closing(tool, args)

\* a model selection that looks at the index only, as the status block does
modelToUseIgnoresStep(tool, args) ==
  IF tool = "consensus"
  THEN IF args.current_model_index >= Len(args.models)
       THEN DefaultModel
       ELSE IF CurrentConfig(args).model = "" THEN DefaultModel ELSE CurrentConfig(args).model
  ELSE DefaultModel

\* the model the backend request names
modelToUse(tool, args) ==
  IF tool = "consensus"
  THEN IF args.step_number = 1 \/ args.current_model_index >= Len(args.models)
       THEN DefaultModel
       ELSE IF CurrentConfig(args).model = "" THEN DefaultModel ELSE CurrentConfig(args).model
  ELSE DefaultModel

\* a status block whose planner lines follow the prompt's scenario: the
\* revision line in a revision step only, the branch line in a branch step only
TrailerOwnLinesAsFramed(tool, tm, args) ==
  CASE tool = "thinkdeep" ->
         <<Line("Thinking Mode", 0, 0, IF tm = "none" THEN "high" ELSE tm, "", NoId)>>
    [] tool = "codereview" ->
         <<Line("Review Type", 0, 0, "full", "", NoId), Plain("Issues Found")>>
    [] tool = "precommit" -> <<Plain("Issues Found")>>
    [] tool = "planner" ->
         IF args.step_number = 1 THEN <<>>
         ELSE IF args.is_step_revision /\ args.revises_step_number # 0
         THEN <<Line("Revision of step", args.revises_step_number, 0, "", "", NoId)>>
         ELSE IF args.is_branch_point /\ args.branch_id # "" /\ args.branch_from_step # 0
         THEN <<Line("Branch", args.branch_from_step, 0, args.branch_id, "", NoId)>>
         ELSE <<>>
    [] tool = "consensus" ->
         IF args.current_model_index < Len(args.models)
         THEN <<Line("Current Model", 0, 0, args.models[args.current_model_index + 1].model,
                     IF args.models[args.current_model_index + 1].stance = "" THEN "neutral"
                     ELSE args.models[args.current_model_index + 1].stance, NoId),
                Line("Progress", args.current_model_index + 1, Len(args.models), "", "", NoId)>>
         ELSE <<Line("Phase", 0, 0, "Final synthesis", "", NoId)>>
    [] OTHER -> <<>>

\* the lines a tool puts between the step line and the id line
TrailerOwnLines(tool, tm, args) ==
  CASE tool = "thinkdeep" ->
         <<Line("Thinking Mode", 0, 0, IF tm = "none" THEN "high" ELSE tm, "", NoId)>>
    [] tool = "codereview" ->
         <<Line("Review Type", 0, 0, "full", "", NoId), Plain("Issues Found")>>
    [] tool = "precommit" -> <<Plain("Issues Found")>>
    [] tool = "planner" ->
         (IF args.is_step_revision /\ args.revises_step_number # 0
          THEN <<Line("Revision of step", args.revises_step_number, 0, "", "", NoId)>> ELSE <<>>)
         \o (IF args.is_branch_point /\ args.branch_id # ""
             THEN <<Line("Branch", args.branch_from_step, 0, args.branch_id, "", NoId)>> ELSE <<>>)
    [] tool = "consensus" ->
         IF args.current_model_index < Len(args.models)
         THEN <<Line("Current Model", 0, 0, CurrentConfig(args).model,
                     StanceOf(CurrentConfig(args)), NoId),
                Line("Progress", args.current_model_index + 1, Len(args.models), "", "", NoId)>>
         ELSE <<Line("Phase", 0, 0, "Final synthesis", "", NoId)>>
    [] OTHER -> <<>>

\* a chat tool that discloses the id whenever the call created a conversation
TrailerDisclosesCreated(tool, cont, tm, args, convId) ==
  IF tool = ChatTool
  THEN IF convId # cont THEN <<Line("Conversation ID", 0, 0, "", "", convId)>> ELSE <<>>
  ELSE <<Line("Step", args.step_number, args.total_steps, "", "", NoId)>>
         \o TrailerOwnLines(tool, tm, args)
         \o <<Line("Continuation ID", 0, 0, "", "", convId),
              Line("Next step required", 0, 0,
                   IF args.next_step_required THEN "Yes" ELSE "No", "", NoId)>>

\* a status block that echoes the supplied continuation_id
TrailerEchoesSupplied(tool, cont, tm, args, convId) ==
  IF tool = ChatTool
  THEN IF cont = NoId THEN <<Line("Conversation ID", 0, 0, "", "", convId)>> ELSE <<>>
  ELSE <<Line("Step", args.step_number, args.total_steps, "", "", NoId)>>
         \o TrailerOwnLines(tool, tm, args)
         \o <<Line("Continuation ID", 0, 0, "", "", IF cont # NoId THEN cont ELSE convId),
              Line("Next step required", 0, 0,
                   IF args.next_step_required THEN "Yes" ELSE "No", "", NoId)>>

\* what the tool appends to the reply: chat its id line, a step-based tool its
\* status block
Trailer(tool, cont, tm, args, convId) ==
  IF tool = ChatTool
  THEN IF cont = NoId THEN <<Line("Conversation ID", 0, 0, "", "", convId)>> ELSE <<>>
  ELSE <<Line("Step", args.step_number, args.total_steps, "", "", NoId)>>
         \o TrailerOwnLines(tool, tm, args)
         \o <<Line("Continuation ID", 0, 0, "", "", convId),
              Line("Next step required", 0, 0,
                   IF args.next_step_required THEN "Yes" ELSE "No", "", NoId)>>

\* only chat and debug read an optional thinking_mode
ThinkingModesOf(tool) == IF tool \in {ChatTool, "debug"} THEN ThinkingModes ELSE {"none"}

\* the continuation ids a caller may supply: none, one never issued, any issued
Continuations == {NoId, DoesNotExist} \cup issued

\* what an execute() yields: nothing yet, a returned object with or without
\* isError, or a thrown Error; error tells whether its text is the backend's
\* failure message (`... failed: ${response.statusText}`)
Result(kind, isError, error) == [kind |-> kind, isError |-> isError, error |-> error]

Pending == Result("pending", FALSE, FALSE)

\* the backend answered: every tool returns { content: [{ type: "text", text }] }
OnReply(tool) == Result("returned", FALSE, FALSE)

\* the backend call threw: listmodels catches and returns a content object with
\* the message in its text; the other tools have no catch and execute() rejects
OnFailure(tool) ==
  IF tool = "listmodels" THEN Result("returned", FALSE, TRUE)
  ELSE Result("thrown", FALSE, TRUE)

\* the host's side of the tool-invocation boundary: a returned object is passed
\* on as it is, a thrown Error becomes an isError response with its message
handleToolCall(result) ==
  IF result.kind = "thrown" THEN Result("returned", TRUE, result.error) ELSE result

\* execute(input) up to the await of the backend call
Execute(tool, cont, tm, args) ==
  /\ Len(calls) < MaxCalls
  /\ LET k == Len(calls) + 1
         user == User(k)
         system == System(k)
         existing == IF cont # NoId THEN getMessages(conversations, cont) ELSE <<>>
         reuse == Reuses(conversations, cont)
         stored == KeepsStoredArray(tool) /\ cont # NoId /\ Has(conversations, cont)
         id == IF reuse THEN cont ELSE generateId(now)
     IN   LET store1 == IF reuse THEN conversations
                        ELSE create(conversations, id, now, <<>>, Metadata(tool, tm))
              pushed == (IF Len(existing) = 0 /\ SystemWanted(tool, tm)
                         THEN <<system>> ELSE <<>>) \o <<user>>
              store2 == IF stored THEN PushStored(store1, cont, pushed) ELSE store1
              store3 == addMessage(store2, id, user, now)
              sent == IF stored /\ Has(store3, cont)
                      THEN getMessages(store3, cont) ELSE existing \o pushed
          IN /\ conversations' = store3
             /\ issued' = IF reuse THEN issued ELSE issued \cup {id}
             /\ calls' = Append(calls,
                  [tool |-> tool, cont |-> cont, tm |-> tm, args |-> args, convId |-> id,
                   created |-> ~reuse, hist |-> existing, sent |-> sent,
                   prompt |-> Prompt(tool, args), model |-> modelToUse(tool, args),
                   text |-> <<>>,
                   present |-> Has(conversations, cont),
                   expired |-> Has(conversations, cont)
                                 /\ now - get(conversations, cont).updated_at > maxAge,
                   status |-> "awaiting", shown |-> NoId,
                   requests |-> 1, result |-> Pending])
             /\ last' = [op |-> "invoke", id |-> id, created |-> ~reuse,
                         before |-> size(conversations),
                         removed |-> Removed(conversations, store3)]
  /\ UNCHANGED <<now, direct, config, stream>>

\* an invocation with a single-step input
Invoke(tool, cont, tm) == Execute(tool, cont, tm, DefaultArgs(tool))

\* a consensus call by itself, with any participants and index
ExecuteConsensus(cont, args) ==
  /\ calls = <<>>
  /\ Execute("consensus", cont, "none", args)

\* a planner call by itself, with any markers
ExecutePlanner(args) ==
  /\ calls = <<>>
  /\ Execute("planner", NoId, "none", args)

\* listmodelsTool.execute() up to the await of ollama.listModels()
ListModels ==
  /\ Len(calls) < MaxCalls
  /\ calls' = Append(calls,
       [tool |-> "listmodels", cont |-> NoId, tm |-> "none", args |-> [k \in {} |-> 0],
        convId |-> NoId, created |-> FALSE, hist |-> <<>>, sent |-> <<>>,
        prompt |-> <<>>, model |-> "", text |-> <<>>, present |-> FALSE,
        expired |-> FALSE, status |-> "awaiting", shown |-> NoId,
        requests |-> 1, result |-> Pending])
  /\ last' = [op |-> "listmodels", id |-> NoId, created |-> FALSE,
              before |-> size(conversations), removed |-> {}]
  /\ UNCHANGED <<conversations, now, issued, direct, config, stream>>

\* the backend answers the model list: the formatted list is returned
RespondListModels(k) ==
  /\ calls[k].status = "awaiting"
  /\ calls[k].tool = "listmodels"
  /\ calls' = [calls EXCEPT ![k].status = "done", ![k].result = OnReply(calls[k].tool)]
  /\ last' = [op |-> "respond", id |-> NoId, created |-> FALSE,
              before |-> size(conversations), removed |-> {}]
  /\ UNCHANGED <<conversations, now, issued, direct, config, stream>>

\* a reply handler that writes the call's own messages array back, with the
\* reply at its end, instead of appending to what the store holds now
RespondWritesBack(k) ==
  /\ calls[k].status = "awaiting"
  /\ calls[k].tool \in Tools
  /\ conversations' =
       [i \in 1..Len(conversations) |->
          IF conversations[i].id = calls[k].convId
          THEN [conversations[i] EXCEPT !.messages = Append(calls[k].sent, Assistant(k)),
                                        !.updated_at = now]
          ELSE conversations[i]]
  /\ calls' = [calls EXCEPT ![k].status = "done",
                            ![k].text = Trailer(calls[k].tool, calls[k].cont, calls[k].tm,
                                                calls[k].args, calls[k].convId),
                            ![k].shown = IF calls[k].tool = ChatTool /\ calls[k].cont # NoId
                                         THEN NoId ELSE calls[k].convId,
                            ![k].result = OnReply(calls[k].tool)]
  /\ last' = [op |-> "respond", id |-> calls[k].convId, created |-> FALSE,
              before |-> size(conversations), removed |-> {}]
  /\ UNCHANGED <<now, issued, direct, config, stream>>

\* a reply handler that registers the conversation again when it is gone
RespondRecreates(k) ==
  /\ calls[k].status = "awaiting"
  /\ calls[k].tool \in Tools
  /\ conversations' = addMessageCreates(conversations, calls[k].convId, Assistant(k), now)
  /\ calls' = [calls EXCEPT ![k].status = "done",
                            ![k].text = Trailer(calls[k].tool, calls[k].cont, calls[k].tm,
                                                calls[k].args, calls[k].convId),
                            ![k].shown = IF calls[k].tool = ChatTool /\ calls[k].cont # NoId
                                         THEN NoId ELSE calls[k].convId,
                            ![k].result = OnReply(calls[k].tool)]
  /\ last' = [op |-> "respond", id |-> calls[k].convId, created |-> FALSE,
              before |-> size(conversations), removed |-> {}]
  /\ UNCHANGED <<now, issued, direct, config, stream>>

\* the backend answers: the assistant message is stored and the text returned
Respond(k) ==
  /\ calls[k].status = "awaiting"
  /\ calls[k].tool \in Tools
  /\ conversations' = addMessage(conversations, calls[k].convId,
                                 Assistant(k), now)
  /\ calls' = [calls EXCEPT ![k].status = "done",
                            ![k].text = Trailer(calls[k].tool, calls[k].cont, calls[k].tm,
                                                calls[k].args, calls[k].convId),
                            ![k].shown = IF calls[k].tool = ChatTool /\ calls[k].cont # NoId
                                         THEN NoId ELSE calls[k].convId,
                            ![k].result = OnReply(calls[k].tool)]
  /\ last' = [op |-> "respond", id |-> calls[k].convId, created |-> FALSE,
              before |-> size(conversations), removed |-> {}]
  /\ UNCHANGED <<now, issued, direct, config, stream>>

\* a failure handler that undoes the call: the conversation the call created
\* is deleted, the user message it appended to a reused one is taken out
FailRollsBack(k) ==
  /\ calls[k].status = "awaiting"
  /\ calls' = [calls EXCEPT ![k].status = "failed", ![k].result = OnFailure(calls[k].tool)]
  /\ conversations' =
       IF calls[k].created THEN MapDelete(conversations, calls[k].convId)
       ELSE [i \in 1..Len(conversations) |->
               IF conversations[i].id = calls[k].convId
               THEN [conversations[i] EXCEPT
                       !.messages = SelectSeq(@, LAMBDA m : m # User(k))]
               ELSE conversations[i]]
  /\ last' = [op |-> "fail", id |-> calls[k].convId, created |-> FALSE,
              before |-> size(conversations), removed |-> {}]
  /\ UNCHANGED <<now, issued, direct, config, stream>>

\* the backend is unreachable or answers with a non-success status: chat() or
\* listModels() throws
Fail(k) ==
  /\ calls[k].status = "awaiting"
  /\ calls' = [calls EXCEPT ![k].status = "failed", ![k].result = OnFailure(calls[k].tool)]
  /\ last' = [op |-> "fail", id |-> calls[k].convId, created |-> FALSE,
              before |-> size(conversations), removed |-> {}]
  /\ UNCHANGED <<conversations, now, issued, direct, config, stream>>

----------------------------------------------------------------------------
(* chatStream(): the generator *)

\* chatStream(request) called: the backend answers with a status and a body
InitStream ==
  /\ stream \in {[NoStream EXCEPT !.pc = "fetched", !.ok = ok, !.body = body, !.rest = body] :
                   ok \in BOOLEAN, body \in Bodies}
  /\ config = loadConfig(<<>>)
  /\ conversations = <<>>
  /\ now = 0
  /\ issued = {}
  /\ calls = <<>>
  /\ direct = 0
  /\ last = [op |-> "init", id |-> NoId, created |-> FALSE, before |-> 0, removed |-> {}]

\* `if (!response.ok) throw`, else the reader is taken with an empty buffer
Open ==
  /\ stream.pc = "fetched"
  /\ stream' = [stream EXCEPT !.pc = IF stream.ok THEN "reading" ELSE "thrown"]
  /\ UNCHANGED <<conversations, now, issued, calls, direct, last, config>>

\* a read that hands every piece of the buffer to the parser and carries
\* nothing over to the next read
ReadNoCarry(n) ==
  /\ stream.pc = "reading"
  /\ n \in 1..Len(stream.rest)
  /\ LET value == SubSeq(stream.rest, 1, n)
         rest == SubSeq(stream.rest, n + 1, Len(stream.rest))
         lines == split(stream.buffer \o value)
     IN stream' = [stream EXCEPT
                     !.rest = rest,
                     !.buffer = <<>>,
                     !.yielded = @ \o yields(lines),
                     !.cut = @ \/ ( /\ rest # <<>> /\ rest[1] \in Digits
                                    /\ value[n] \in Digits )]
  /\ UNCHANGED <<conversations, now, issued, calls, direct, last, config>>

\* one turn of the loop for a read of n characters: the buffer grows by the
\* decoded value, is split at the newlines, its last piece is kept as the new
\* buffer and every other piece is parsed and yielded
Read(n) ==
  /\ stream.pc = "reading"
  /\ n \in 1..Len(stream.rest)
  /\ LET value == SubSeq(stream.rest, 1, n)
         rest == SubSeq(stream.rest, n + 1, Len(stream.rest))
         lines == split(stream.buffer \o value)
     IN stream' = [stream EXCEPT
                     !.rest = rest,
                     !.buffer = lines[Len(lines)],
                     !.yielded = @ \o yields(SubSeq(lines, 1, Len(lines) - 1)),
                     !.cut = @ \/ ( /\ rest # <<>> /\ rest[1] \in Digits
                                    /\ value[n] \in Digits )]
  /\ UNCHANGED <<conversations, now, issued, calls, direct, last, config>>

\* the read that reports done: the remaining buffer is parsed and the
\* generator returns
End ==
  /\ stream.pc = "reading"
  /\ stream.rest = <<>>
  /\ stream' = [stream EXCEPT !.pc = "done", !.buffer = <<>>,
                              !.yielded = @ \o yields(<<stream.buffer>>)]
  /\ UNCHANGED <<conversations, now, issued, calls, direct, last, config>>

NextStream ==
  \/ Open
  \/ \E n \in 1..MaxBody : Read(n)
  \/ End

SpecStream == InitStream /\ [][NextStream]_vars

----------------------------------------------------------------------------
(* The specification *)

InitialMessages == {<<>>, <<[role |-> "user", content |-> 0]>>}

Metadatas == {NoMetadata, [a |-> "1"]}

Partials == {[b |-> "2"], [a |-> "9"]}

\* the ids a direct caller may name
DirectIds == {DoesNotExist} \cup issued

\* the store under its direct callers
NextStore ==
  \/ Tick
  \/ direct < MaxDirect /\ \E im \in InitialMessages, md \in Metadatas : Create(im, md)
  \/ direct < MaxDirect /\ \E id \in DirectIds, m \in DirectMessages : AddMessage(id, m)
  \/ direct < MaxDirect /\ \E id \in DirectIds, md \in Partials : UpdateMetadata(id, md)
  \/ direct < MaxDirect /\ \E id \in DirectIds : Delete(id)
  \/ direct < MaxDirect /\ Clear

SpecStore == Init /\ [][NextStore]_vars

\* the store under its direct callers, the process started in any environment
SpecConfig == InitConfig /\ [][NextStore]_vars

\* the store under the tools
NextTools ==
  \/ Tick
  \/ \E tool \in Tools, cont \in Continuations :
       \E tm \in ThinkingModesOf(tool) : Invoke(tool, cont, tm)
  \/ \E k \in 1..Len(calls) : Respond(k)
  \/ \E k \in 1..Len(calls) : Fail(k)

SpecTools == Init /\ [][NextTools]_vars

\* the store under the tools, beside a direct caller
Next ==
  \/ Tick
  \/ direct < MaxBeside /\ \E im \in InitialMessages : Create(im, NoMetadata)
  \/ direct < MaxBeside /\ \E id \in DirectIds : Delete(id)
  \/ direct < MaxBeside /\ Clear
  \/ \E tool \in Tools, cont \in Continuations :
       \E tm \in ThinkingModesOf(tool) : Invoke(tool, cont, tm)
  \/ \E k \in 1..Len(calls) : Respond(k)
  \/ \E k \in 1..Len(calls) : Fail(k)

Spec == Init /\ [][Next]_vars

\* the step-based tools with their step inputs, beside a direct caller
NextSteps ==
  \/ direct < MaxBeside /\ Create(<<>>, NoMetadata)
  \/ direct < MaxBeside /\ \E id \in DirectIds : Delete(id)
  \/ \E tool \in StepTools, cont \in Continuations :
       \E tm \in ThinkingModesOf(tool), args \in ArgsOf(tool) : Execute(tool, cont, tm, args)
  \/ \E k \in 1..Len(calls) : Respond(k)

SpecSteps == Init /\ [][NextSteps]_vars

\* one consensus call with any participants and index, on a new conversation or
\* on one a direct caller created
NextConsensus ==
  \/ direct < MaxBeside /\ \E im \in InitialMessages : Create(im, NoMetadata)
  \/ \E cont \in Continuations, args \in ConsensusArgs : ExecuteConsensus(cont, args)
  \/ \E k \in 1..Len(calls) : Respond(k)

SpecConsensus == Init /\ [][NextConsensus]_vars

\* one planner call with any combination of markers
NextPlanner ==
  \/ \E args \in PlannerArgs : ExecutePlanner(args)
  \/ \E k \in 1..Len(calls) : Respond(k)

SpecPlanner == Init /\ [][NextPlanner]_vars

\* the store under direct callers, the draws of Math.random() unconstrained
NextIds ==
  \/ Tick
  \/ direct < MaxDirect /\ \E r \in 1..MaxRandom, im \in InitialMessages, md \in Metadatas :
                             CreateDrawn(r, im, md)
  \/ direct < MaxDirect /\ \E id \in DirectIds, m \in DirectMessages : AddMessage(id, m)
  \/ direct < MaxDirect /\ \E id \in DirectIds : Delete(id)

SpecIds == Init /\ [][NextIds]_vars

\* the step fields with any total_steps, also one below step_number
AccountingArgs ==
  [step_number : StepNumbers, total_steps : 1..MaxStep, next_step_required : BOOLEAN]

AccountingArgsOf(tool) == {a @@ Defaults(tool) : a \in AccountingArgs}

\* the step-based tools called with any step fields in any order
NextAccounting ==
  \/ \E tool \in StepTools, cont \in Continuations :
       \E tm \in ThinkingModesOf(tool), args \in AccountingArgsOf(tool) :
         Execute(tool, cont, tm, args)
  \/ \E k \in 1..Len(calls) : Respond(k)

SpecAccounting == Init /\ [][NextAccounting]_vars

\* tool invocations that overlap at the backend call, on a conversation a
\* direct caller created or on one of their own
NextConcurrent ==
  \/ direct < MaxBeside /\ \E im \in InitialMessages : Create(im, NoMetadata)
  \/ \E tool \in Tools, cont \in Continuations :
       \E tm \in ThinkingModesOf(tool) : Invoke(tool, cont, tm)
  \/ \E k \in 1..Len(calls) : Respond(k)

SpecConcurrent == Init /\ [][NextConcurrent]_vars

\* every tool that calls the backend, the backend answering or failing
NextBackend ==
  \/ Tick
  \/ \E tool \in Tools, cont \in Continuations :
       \E tm \in ThinkingModesOf(tool) : Invoke(tool, cont, tm)
  \/ ListModels
  \/ \E k \in 1..Len(calls) : Respond(k)
  \/ \E k \in 1..Len(calls) : RespondListModels(k)
  \/ \E k \in 1..Len(calls) : Fail(k)

SpecBackend == Init /\ [][NextBackend]_vars

----------------------------------------------------------------------------
(* Eviction: the claims about create and its cleanup pass *)

\* the entries the last operation removed for their age
RemovedByAge == {r \in last.removed : now - r[2] > maxAge}

\* the entries the last operation removed although within the retention window
RemovedByCount == last.removed \ RemovedByAge

\* the count the count phase of the last create saw: the entries before the
\* create, the new one, less those removed for their age
SurvivedAgePhase == last.before + 1 - Cardinality(RemovedByAge)

\* C1: the store never holds more than maxConversations conversations in a
\* state between two operations, in particular right after every create.
C1_CapacityBound == size(conversations) <= maxConversations

\* a create has just evicted by count and the store is full
C1_Witness ==
  /\ last.created
  /\ RemovedByCount # {}
  /\ size(conversations) = maxConversations

\* C2: when a create removes conversations for the count, it removes exactly
\* (count after the age phase - capacity) of them, and none of the removed was
\* updated later than any conversation it keeps.
C2_CountEvictionKeepsNewest ==
  last.created =>
    /\ Cardinality(RemovedByCount) =
         IF SurvivedAgePhase > maxConversations
         THEN SurvivedAgePhase - maxConversations ELSE 0
    /\ \A r \in RemovedByCount : \A i \in 1..Len(conversations) :
         r[2] <= conversations[i].updated_at

\* a create has just evicted by count an entry that is strictly older than one
\* it kept, and the kept one already existed when the evicted one was last updated
C2_Witness ==
  /\ last.created
  /\ \E r \in RemovedByCount : \E i \in 1..Len(conversations) :
       /\ r[2] < conversations[i].updated_at
       /\ conversations[i].created_at <= r[2]
       /\ conversations[i].id # last.id

\* C3: right after a create no conversation older than the retention window is
\* left, and a create that leaves the count within capacity removes nothing
\* that is within the window.
C3_AgeEvictionExact ==
  last.created =>
    /\ \A i \in 1..Len(conversations) : ~(now - conversations[i].updated_at > maxAge)
    /\ SurvivedAgePhase <= maxConversations => RemovedByCount = {}

\* a create has just removed an expired conversation and kept an older-created
\* one that is still within the window
C3_Witness ==
  /\ last.created
  /\ RemovedByAge # {}
  /\ \E i \in 1..Len(conversations) : conversations[i].id # last.id

----------------------------------------------------------------------------
(* Conversation resolution and replay: the claims about the tools *)

Stored(id) == getMessages(conversations, id)

Holds(msgs, m) == \E i \in 1..Len(msgs) : msgs[i] = m

\* the stored messages of conversation id that invocation k composed or received
Of(k, id) == SelectSeq(Stored(id), LAMBDA m : m.content = k)

\* C4: an invocation whose continuation_id matches no stored conversation issues
\* its backend request, creates one new conversation under a generated id, and
\* stores its messages there and nothing under the supplied id.
C4_UnknownContinuationStartsFresh ==
  \A k \in 1..Len(calls) :
    LET c == calls[k] IN
      (c.cont # NoId /\ ~c.present) =>
        /\ c.created
        /\ c.convId # c.cont
        /\ c.convId \in issued
        /\ c.sent[Len(c.sent)] = User(k)
        /\ ~Has(conversations, c.cont)
        /\ Has(conversations, c.convId) =>
             /\ Stored(c.convId)[1] = User(k)
             /\ c.status = "done" => Holds(Stored(c.convId), Assistant(k))
        /\ (k = Len(calls) /\ last.op = "invoke") =>
             /\ size(conversations) = last.before + 1 - Cardinality(last.removed)
             /\ Stored(c.convId) = <<User(k)>>

\* a step-based tool and the chat tool have each completed a call that supplied
\* an id the store did not hold: one never issued, one issued and removed since
C4_Witness ==
  \E j, k \in 1..Len(calls) :
    /\ calls[j].tool \in StepTools /\ calls[k].tool = ChatTool
    /\ calls[j].cont = DoesNotExist /\ calls[k].cont \in issued
    /\ ~calls[j].present /\ ~calls[k].present
    /\ calls[j].status = "done" /\ calls[k].status = "done"

\* C5: an invocation whose continuation_id names a stored conversation with at
\* least one message uses that id, creates nothing (no id issued, same entries
\* in the same order, none evicted), extends that conversation's messages and
\* leaves every other conversation as it was.
C5_ReuseOfLiveConversation ==
  [][ Len(calls') = Len(calls) + 1 =>
        LET c == calls'[Len(calls')] IN
          (c.cont # NoId /\ Len(getMessages(conversations, c.cont)) >= 1) =>
            /\ c.convId = c.cont
            /\ ~c.created
            /\ issued' = issued
            /\ Len(conversations') = Len(conversations)
            /\ \A i \in 1..Len(conversations) :
                 /\ conversations'[i].id = conversations[i].id
                 /\ conversations[i].id # c.cont => conversations'[i] = conversations[i]
                 /\ conversations[i].id = c.cont =>
                      /\ Len(conversations'[i].messages) > Len(conversations[i].messages)
                      /\ SubSeq(conversations'[i].messages, 1, Len(conversations[i].messages))
                           = conversations[i].messages
    ]_vars

\* a call has just reused a conversation while another conversation, older than
\* the retention window, is still stored: no eviction pass ran
C5_Witness ==
  /\ last.op = "invoke"
  /\ ~last.created
  /\ \E i \in 1..Len(conversations) :
       /\ conversations[i].id # last.id
       /\ now - conversations[i].updated_at > maxAge

\* C6: a chat invocation that supplies the id a completed chat invocation without
\* continuation_id returned, the conversation being still stored, sends the stored
\* messages in stored order followed by its own user message: at least 3
\* messages, the first call's user message before the first call's assistant
\* message.
C6_ChatContinuity ==
  [][ Len(calls') = Len(calls) + 1 =>
        LET j == Len(calls')
            c == calls'[j]
        IN \A i \in 1..Len(calls) :
             ( /\ calls[i].tool = ChatTool /\ calls[i].cont = NoId
               /\ calls[i].status = "done" /\ calls[i].shown = c.cont
               /\ c.tool = ChatTool /\ c.cont # NoId
               /\ Has(conversations, c.cont) ) =>
               /\ c.sent = getMessages(conversations, c.cont) \o <<User(j)>>
               /\ Len(c.sent) >= 3
               /\ \E a, b \in 1..(Len(c.sent) - 1) :
                    a < b /\ c.sent[a] = User(i) /\ c.sent[b] = Assistant(i)
    ]_vars

\* the second chat call continued the first one's conversation with three messages
C6_Witness ==
  \E i, j \in 1..Len(calls) :
    /\ i < j
    /\ calls[i].tool = ChatTool /\ calls[i].cont = NoId /\ calls[i].tm = "high"
    /\ calls[j].tool = ChatTool /\ calls[j].cont = calls[i].shown /\ calls[j].cont # NoId
    /\ calls[j].sent = <<User(i), Assistant(i), User(j)>>

\* C7: a step-based tool that continues a non-empty conversation sends the
\* messages stored before the call, in stored order, followed by exactly one new
\* user message.
C7_VerbatimReplay ==
  \A k \in 1..Len(calls) :
    LET c == calls[k] IN
      (c.tool \in StepTools /\ c.cont # NoId /\ Len(c.hist) >= 1) =>
        c.sent = c.hist \o <<User(k)>>

\* C8: a completed invocation has added to its conversation exactly two
\* messages, its user message and then the backend's assistant message.
C8_TwoAppendsPerCall ==
  \A k \in 1..Len(calls) :
    LET c == calls[k] IN
      (c.status = "done" /\ Has(conversations, c.convId)) =>
        Of(k, c.convId) = <<User(k), Assistant(k)>>

\* C9 as stated: while a call's backend request is in flight no conversation
\* holds the call's user message.
C9_NothingStoredInFlight ==
  \A k \in 1..Len(calls) :
    calls[k].status = "awaiting" =>
      \A i \in 1..Len(conversations) : ~Holds(conversations[i].messages, User(k))

\* C9 as amended: the invocation stores its user message before the backend
\* request is issued; only the assistant message waits for the full response, so
\* while the request is in flight, or after it failed, the conversation holds
\* the call's user message and no conversation holds an assistant message of
\* the call.
C9_OnlyAssistantAfterBackend ==
  \A k \in 1..Len(calls) :
    LET c == calls[k] IN
      /\ c.status \in {"awaiting", "failed"} =>
           \A i \in 1..Len(conversations) : ~Holds(conversations[i].messages, Assistant(k))
      /\ Has(conversations, c.convId) => Holds(Stored(c.convId), User(k))

\* a request is in flight and its conversation ends with the call's user message
C9_Witness ==
  \E k \in 1..Len(calls) :
    /\ calls[k].status = "awaiting"
    /\ Has(conversations, calls[k].convId)
    /\ Stored(calls[k].convId)[Len(Stored(calls[k].convId))] = User(k)

\* C10 as stated: an invocation whose continuation_id names a conversation older
\* than the retention window does not reuse it.
C10_ExpiredNeverReused ==
  \A k \in 1..Len(calls) : calls[k].expired => calls[k].created

\* C10 as amended: expiry takes effect at the next create. A supplied id whose
\* conversation a create has swept (or that was deleted) starts a new
\* conversation; one whose conversation is older than the window but still
\* stored with a message, no create having run since, is reused.
C10_ExpiredReusedUntilSwept ==
  \A k \in 1..Len(calls) :
    LET c == calls[k] IN
      /\ (c.cont \in issued /\ ~c.present) => (c.created /\ c.convId # c.cont)
      /\ (c.expired /\ Len(c.hist) >= 1) => (~c.created /\ c.convId = c.cont)

\* a call has reused, and completed on, a conversation that was older than the
\* window when the call was made
C10_Witness ==
  \E k \in 1..Len(calls) :
    /\ calls[k].expired /\ ~calls[k].created
    /\ calls[k].status = "done"
    /\ Holds(Stored(calls[k].cont), Assistant(k))

----------------------------------------------------------------------------
(* The store's contract: the claims about its direct operations *)

\* C11: a created conversation holds its initial messages; an addMessage on a
\* stored id appends exactly its message; no other direct operation changes the
\* messages of a conversation that stays stored. So the messages are the
\* initial ones followed by the added ones in call order, never removed,
\* reordered or changed in place.
C11_AppendConsistency ==
  [][ /\ \A im \in InitialMessages, md \in Metadatas :
           (Create(im, md) /\ Has(conversations', last'.id)) =>
             getMessages(conversations', last'.id) = im
      /\ \A id \in Ids(conversations) \cap Ids(conversations') :
           /\ \A m \in DirectMessages :
                AddMessage(id, m) =>
                  getMessages(conversations', id) = Append(getMessages(conversations, id), m)
           /\ ~(last'.op = "addMessage" /\ last'.id = id) =>
                getMessages(conversations', id) = getMessages(conversations, id)
    ]_vars

\* a conversation created with one initial message has received two different
\* messages, an operation on another conversation lying in between
C11_Witness ==
  /\ size(conversations) = 2
  /\ last.op = "addMessage"
  /\ \E i \in 1..Len(conversations) :
       /\ conversations[i].id = last.id
       /\ conversations[i].messages =
            <<[role |-> "user", content |-> 0], [role |-> "assistant", content |-> 0],
              [role |-> "user", content |-> 0]>>
       /\ \E j \in 1..Len(conversations) :
            conversations[j].created_at > conversations[i].created_at

\* C12: for an id the store does not hold, getMessages is the empty sequence
\* and addMessage, updateMetadata and delete leave the whole store as it was:
\* the same conversations in the same order with the same messages, metadata
\* and timestamps, and no id issued.
C12_MissingIdIsNoOp ==
  [][ /\ \A id \in DirectIds :
           ~Has(conversations, id) => getMessages(conversations, id) = <<>>
      /\ ( /\ last'.op \in {"addMessage", "updateMetadata", "delete"}
           /\ ~Has(conversations, last'.id) ) =>
             /\ conversations' = conversations
             /\ issued' = issued
    ]_vars

\* addMessage has just been called with the id of a conversation that was
\* removed before, while the store held another conversation
C12_Witness ==
  /\ last.op = "addMessage"
  /\ last.id \in issued
  /\ ~Has(conversations, last.id)
  /\ size(conversations) >= 1

\* C13: updateMetadata(id, partial) on a stored conversation leaves a metadata
\* object whose keys are the previous keys and those of partial, every key of
\* partial holding its new value and every other key its previous value; the
\* conversation's messages are unchanged.
C13_MetadataShallowMerge ==
  [][ \A id \in Ids(conversations), partial \in Partials :
        UpdateMetadata(id, partial) =>
          LET old == get(conversations, id)
              new == get(conversations', id)
          IN /\ DOMAIN new.metadata = DOMAIN old.metadata \cup DOMAIN partial
             /\ \A key \in DOMAIN partial : new.metadata[key] = partial[key]
             /\ \A key \in DOMAIN old.metadata \ DOMAIN partial :
                  new.metadata[key] = old.metadata[key]
             /\ new.messages = old.messages
    ]_vars

\* {a: "1"}, then {b: "2"}, then {a: "9"}: the metadata is {a: "9", b: "2"}
C13_Witness ==
  /\ last.op = "updateMetadata"
  /\ Has(conversations, last.id)
  /\ get(conversations, last.id).metadata = [a |-> "9", b |-> "2"]
  /\ get(conversations, last.id).messages # <<>>

\* C14: the id a create returns is the id of no conversation created before, so
\* the create replaces no stored conversation and the store has one entry more
\* before eviction (one more, less those evicted, after it).
C14_IdsUnique ==
  [][ last'.op = "create" =>
        /\ last'.id \notin issued
        /\ ~Has(conversations, last'.id)
        /\ size(conversations') = size(conversations) + 1 - Cardinality(last'.removed)
    ]_vars

\* C15: a create stamps created_at = updated_at = now on the new conversation;
\* an addMessage or updateMetadata on a stored conversation sets its updated_at
\* to the current time; over every step created_at of a conversation that stays
\* stored is unchanged and its updated_at does not decrease; and created_at <=
\* updated_at for every stored conversation (the clock does not run backwards).
C15_Timestamps ==
  [][ /\ (last'.op = "create" /\ Has(conversations', last'.id)) =>
           /\ get(conversations', last'.id).created_at = now
           /\ get(conversations', last'.id).updated_at = now
      /\ (last'.op \in {"addMessage", "updateMetadata"} /\ Has(conversations, last'.id)) =>
           get(conversations', last'.id).updated_at = now
      /\ \A id \in Ids(conversations) \cap Ids(conversations') :
           /\ get(conversations', id).created_at = get(conversations, id).created_at
           /\ get(conversations', id).updated_at >= get(conversations, id).updated_at
      /\ \A i \in 1..Len(conversations') :
           conversations'[i].created_at <= conversations'[i].updated_at
    ]_vars

\* updateMetadata has just refreshed a conversation created at an earlier clock
\* value that has also received a message since its creation
C15_Witness ==
  /\ last.op = "updateMetadata"
  /\ Has(conversations, last.id)
  /\ get(conversations, last.id).created_at < now
  /\ get(conversations, last.id).updated_at = now
  /\ Len(get(conversations, last.id).messages) >= 2

\* C16: the store holds at most the configured number of conversations,
\* config.maxConversations, in particular right after every create.
C16_ConfiguredCapacityBound ==
  last.created => size(conversations) <= config.maxConversations

\* C28: right after every create the store holds the conversation under the
\* returned id, as that create registered it (its messages, stamped now), and
\* the cleanup of that create has not removed it, whatever it removed
\* otherwise and also when other conversations carry the same updated_at.
C28_NewConversationSurvives ==
  [][ \A im \in InitialMessages, md \in Metadatas :
        Create(im, md) =>
          /\ Has(conversations', generateId(now))
          /\ get(conversations', generateId(now)) =
               [id |-> generateId(now), messages |-> im, metadata |-> md,
                created_at |-> now, updated_at |-> now]
          /\ \A x \in last'.removed : x[1] # generateId(now)
    ]_vars

\* a create has just evicted, for the count, a conversation whose updated_at
\* equals the new conversation's, and the new conversation is stored
C28_Witness ==
  /\ last.op = "create"
  /\ \E x \in last.removed : x[2] = now
  /\ Has(conversations, last.id)
  /\ get(conversations, last.id).updated_at = now
  /\ size(conversations) = maxConversations

----------------------------------------------------------------------------
(* The workflow step protocol: the claims about prompts and status blocks *)

\* the lines of a status block, or the sections of a prompt, under one label
Lines(text, label) == SelectSeq(text, LAMBDA l : l.label = label)

\* C17: the status block of every completed step-based call has one step line
\* with the call's step_number and total_steps, one next-step line with the
\* call's flag, and one id line; the id it reports is the one under which the
\* call appended its user and assistant messages, and when the supplied
\* continuation_id resolved to no message it is the id the call created, not
\* the supplied one.
C17_ResponseTrailer ==
  \A k \in 1..Len(calls) :
    LET c == calls[k] IN
      (c.tool \in StepTools /\ c.status = "done") =>
        /\ Lines(c.text, "Step") =
             <<Line("Step", c.args.step_number, c.args.total_steps, "", "", NoId)>>
        /\ Lines(c.text, "Next step required") =
             <<Line("Next step required", 0, 0,
                    IF c.args.next_step_required THEN "Yes" ELSE "No", "", NoId)>>
        /\ Len(Lines(c.text, "Continuation ID")) = 1
        /\ LET reported == Lines(c.text, "Continuation ID")[1].id
           IN /\ reported = c.convId
              /\ Has(conversations, reported) =>
                   /\ Holds(Stored(reported), User(k))
                   /\ Holds(Stored(reported), Assistant(k))
              /\ (c.cont # NoId /\ Len(c.hist) = 0) =>
                   /\ c.created
                   /\ reported # c.cont
                   /\ reported \in issued

\* a step-based call at step 2 that supplied the id of a removed conversation
\* has completed, and the conversation it reports holds its messages
C17_Witness ==
  \E k \in 1..Len(calls) :
    /\ calls[k].tool \in StepTools /\ calls[k].status = "done"
    /\ calls[k].cont \in issued /\ ~calls[k].present
    /\ calls[k].args.step_number = 2 /\ calls[k].args.next_step_required
    /\ Has(conversations, calls[k].convId)
    /\ Lines(calls[k].text, "Continuation ID")[1].id # calls[k].cont

\* the scenario sections of a planner prompt
PlannerFramings ==
  {InitialSection("planner"), "Plan Revision", "Alternative Approach - Branch",
   ContinuationSection("planner")}

Framings(prompt) == SelectSeq(prompt, LAMBDA l : l.label \in PlannerFramings)

\* C18: a planner prompt holds exactly one scenario section: the initial one
\* when step_number is 1, whatever the markers; otherwise the revision section
\* naming the revised step when is_step_revision and revises_step_number are
\* given; otherwise the branch section naming the branch and its origin step
\* when is_branch_point, branch_id and branch_from_step are given; otherwise
\* the continuation section.
C18_PlannerClassification ==
  \A k \in 1..Len(calls) :
    LET c == calls[k]
        a == c.args
    IN c.tool = "planner" =>
         LET revision == a.is_step_revision /\ a.revises_step_number # 0
             branch == a.is_branch_point /\ a.branch_id # "" /\ a.branch_from_step # 0
             framing == Framings(c.prompt)
         IN /\ Len(framing) = 1
            /\ a.step_number = 1 => framing[1].label = InitialSection("planner")
            /\ (a.step_number # 1 /\ revision) =>
                 /\ framing[1].label = "Plan Revision"
                 /\ framing[1].step = a.revises_step_number
            /\ (a.step_number # 1 /\ ~revision /\ branch) =>
                 /\ framing[1].label = "Alternative Approach - Branch"
                 /\ framing[1].name = a.branch_id
                 /\ framing[1].step = a.branch_from_step
            /\ (a.step_number # 1 /\ ~revision /\ ~branch) =>
                 framing[1].label = ContinuationSection("planner")

\* a planner call at step 2 carrying both revision and branch markers was
\* framed as a revision
C18_Witness ==
  \E k \in 1..Len(calls) :
    /\ calls[k].tool = "planner"
    /\ calls[k].args.step_number = 2
    /\ calls[k].args.is_step_revision /\ calls[k].args.revises_step_number = 1
    /\ calls[k].args.is_branch_point /\ calls[k].args.branch_id = "alt-1"
    /\ calls[k].args.branch_from_step = 2
    /\ Len(Lines(calls[k].prompt, "Plan Revision")) = 1

\* C19: the status block of every completed planner call with is_branch_point,
\* a branch_id and a branch_from_step has one branch line that names that
\* branch id and that origin step, at any step_number and with or without
\* revision markers.
C19_PlannerBranchReported ==
  \A k \in 1..Len(calls) :
    LET c == calls[k]
        a == c.args
    IN ( /\ c.tool = "planner" /\ c.status = "done"
         /\ a.is_branch_point /\ a.branch_id # "" /\ a.branch_from_step # 0 ) =>
            Lines(c.text, "Branch") = <<Line("Branch", a.branch_from_step, 0, a.branch_id, "", NoId)>>

\* a planner call at step 1 with branch and revision markers has completed: its
\* prompt is the initial one and its status block names the branch
C19_Witness ==
  \E k \in 1..Len(calls) :
    /\ calls[k].tool = "planner" /\ calls[k].status = "done"
    /\ calls[k].args.step_number = 1
    /\ calls[k].args.is_step_revision /\ calls[k].args.revises_step_number = 1
    /\ calls[k].args.is_branch_point /\ calls[k].args.branch_id = "alt-1"
    /\ calls[k].args.branch_from_step = 2
    /\ Len(Lines(calls[k].prompt, "Alternative Approach - Branch")) = 0
    /\ Len(Lines(calls[k].text, "Branch")) = 1

\* the scenario sections of a consensus prompt
ConsensusPhases ==
  {InitialSection("consensus"), "Consulting Model", ContinuationSection("consensus")}

Phases(prompt) == SelectSeq(prompt, LAMBDA l : l.label \in ConsensusPhases)

Framing(tool, prompt) ==
  IF tool = "consensus" THEN prompt ELSE SubSeq(prompt, 1, Len(prompt) - 1)

\* whether the request opens with the system message of call k
LedBySystem(k) == Len(calls[k].sent) > 0 /\ Holds(calls[k].sent, System(k))

C30_TrailerAgreesWithPhase ==
  \A k \in 1..Len(calls) :
    LET c == calls[k]
        a == c.args
        synthesis == Lines(c.prompt, ContinuationSection("consensus")) # <<>>
        consulted == Lines(c.prompt, "Consulting Model") # <<>>
    IN (c.tool = "consensus" /\ c.status = "done") =>
         /\ (Lines(c.text, "Phase") # <<>>) = synthesis
         /\ (Lines(c.text, "Current Model") # <<>>) = consulted
         /\ (Lines(c.text, "Progress") # <<>>) = consulted
         /\ consulted =>
              /\ Lines(c.text, "Current Model")[1].name = c.model
              /\ Lines(c.text, "Progress") =
                   <<Line("Progress", a.current_model_index + 1, Len(a.models), "", "", NoId)>>
         /\ a.step_number = 1 =>
              /\ Lines(c.text, "Phase") = <<>>
              /\ Lines(c.text, "Current Model") = <<>>

----------------------------------------------------------------------------
(* The chat tool's response *)

\* C24: the text of a completed chat call names a conversation id exactly when
\* the call supplied no continuation_id, and the id is then the one the call
\* generated and stored its messages under; a call that supplied a
\* continuation_id, stored or not, gets the reply without any id, also when a
\* new conversation was created for it.
C24_ChatIdDisclosure ==
  \A k \in 1..Len(calls) :
    LET c == calls[k] IN
      (c.tool = ChatTool /\ c.status = "done") =>
        /\ c.cont = NoId =>
             /\ c.text = <<Line("Conversation ID", 0, 0, "", "", c.convId)>>
             /\ c.created
             /\ c.convId \in issued
        /\ c.cont # NoId => \A i \in 1..Len(c.text) : c.text[i].id = NoId

\* one chat call without continuation_id has completed with its id disclosed,
\* and one with an id the store does not hold has completed on a conversation
\* created for it, which the store holds, without any id in its text
C24_Witness ==
  \E j, k \in 1..Len(calls) :
    /\ calls[j].tool = ChatTool /\ calls[j].cont = NoId /\ calls[j].status = "done"
    /\ Len(calls[j].text) = 1
    /\ calls[k].tool = ChatTool /\ calls[k].cont # NoId /\ calls[k].status = "done"
    /\ calls[k].created /\ Has(conversations, calls[k].convId)
    /\ calls[k].text = <<>>

----------------------------------------------------------------------------
(* Invocations that overlap *)

\* whether msgs is an initial segment of more
IsPrefix(msgs, more) == Len(msgs) <= Len(more) /\ SubSeq(more, 1, Len(msgs)) = msgs

\* C25: whatever the interleaving of two invocations on one stored
\* conversation, no step loses or overwrites a stored message (what a
\* conversation held stays as an initial segment of what it holds), an
\* invocation that continues the conversation leaves its user message at the
\* end, a reply is appended as the last message, and once a call has completed
\* its conversation, while stored, holds that call's user message before that
\* call's assistant message, which it holds once.
C25_ConcurrentAppendsKept ==
  [][ /\ \A id \in Ids(conversations) \cap Ids(conversations') :
           IsPrefix(getMessages(conversations, id), getMessages(conversations', id))
      /\ \A k \in 1..Len(calls) :
           (Respond(k) /\ Has(conversations, calls[k].convId)) =>
             getMessages(conversations', calls[k].convId)
               = Append(getMessages(conversations, calls[k].convId), Assistant(k))
      /\ Len(calls') = Len(calls) + 1 =>
           LET k == Len(calls')
               msgs == getMessages(conversations', calls'[k].convId)
           IN msgs[Len(msgs)] = User(k)
      /\ \A k \in 1..Len(calls') :
           (calls'[k].status = "done" /\ Has(conversations', calls'[k].convId)) =>
             LET msgs == getMessages(conversations', calls'[k].convId)
             IN /\ \E a, b \in 1..Len(msgs) :
                     a < b /\ msgs[a] = User(k) /\ msgs[b] = Assistant(k)
                /\ Len(SelectSeq(msgs, LAMBDA m : m = Assistant(k))) = 1
    ]_vars

\* two chat calls continued the conversation a direct caller created with one
\* message; the second was made before the first one's reply and answered
\* first
C25_Witness ==
  /\ Len(calls) = 2
  /\ calls[1].cont # NoId /\ calls[2].cont = calls[1].cont
  /\ calls[1].status = "done" /\ calls[2].status = "done"
  /\ Stored(calls[1].cont) =
       <<[role |-> "user", content |-> 0], User(1), User(2), Assistant(2), Assistant(1)>>

\* whether a response text names the id
Reports(text, id) == \E i \in 1..Len(text) : text[i].id = id

\* the reply of call k arrives and the call's conversation is no longer stored
RepliedAfterRemoval(k) == Respond(k) /\ ~Has(conversations, calls[k].convId)

\* C27 as stated: when the conversation of an in-flight invocation has been
\* removed before the reply arrives, the invocation completes normally, the
\* store is left as it was (the assistant message stored nowhere, nothing
\* registered under the id) and the response reports the id.
C27_RemovedInFlightReportsId ==
  [][ \A k \in 1..Len(calls) :
        RepliedAfterRemoval(k) =>
          /\ calls'[k].status = "done"
          /\ calls'[k].result = Result("returned", FALSE, FALSE)
          /\ conversations' = conversations
          /\ issued' = issued
          /\ Reports(calls'[k].text, calls[k].convId)
    ]_vars

\* C27 as amended: in that case the invocation completes normally, the store
\* is left as it was, and the response is the one the call would give with the
\* conversation stored: a step-based tool reports the id, the chat tool reports
\* it when the call supplied no continuation_id and reports no id when it
\* supplied one.
C27_RemovedInFlight ==
  [][ \A k \in 1..Len(calls) :
        RepliedAfterRemoval(k) =>
          /\ calls'[k].status = "done"
          /\ calls'[k].result = Result("returned", FALSE, FALSE)
          /\ conversations' = conversations
          /\ issued' = issued
          /\ ~Has(conversations', calls[k].convId)
          /\ \A i \in 1..Len(conversations') :
               ~Holds(conversations'[i].messages, Assistant(k))
          /\ (calls[k].tool \in StepTools \/ calls[k].cont = NoId) =>
               Reports(calls'[k].text, calls[k].convId)
          /\ (calls[k].tool = ChatTool /\ calls[k].cont # NoId) =>
               \A i \in 1..Len(calls'[k].text) : calls'[k].text[i].id = NoId
    ]_vars

\* the reply of a step-based call has just arrived after the eviction pass of
\* another invocation's create removed the call's conversation: the call is
\* done, its text names the id, and the store does not hold it
C27_Witness ==
  \E k \in 1..Len(calls) :
    /\ last.op = "respond" /\ last.id = calls[k].convId
    /\ calls[k].tool \in StepTools /\ calls[k].status = "done"
    /\ ~Has(conversations, calls[k].convId)
    /\ Reports(calls[k].text, calls[k].convId)
    /\ \E j \in 1..Len(calls) :
         j # k /\ calls[j].created /\ Has(conversations, calls[j].convId)
    /\ size(conversations) = maxConversations

----------------------------------------------------------------------------
(* System messages *)

\* C29: no stored conversation holds a system-role message, a call that
\* resolved to an empty history and wants a system message sends it first, and
\* a call that continues a stored history sends no system message.
C29_SystemNeverPersisted ==
  /\ \A i \in 1..Len(conversations) :
       \A n \in 1..Len(conversations[i].messages) :
         conversations[i].messages[n].role # "system"
  /\ \A k \in 1..Len(calls) :
       LET c == calls[k] IN
         c.tool \in Tools =>
           /\ (Len(c.hist) = 0 /\ SystemWanted(c.tool, c.tm)) => c.sent[1] = System(k)
           /\ Len(c.hist) >= 1 =>
                \A n \in 1..Len(c.sent) : c.sent[n].role # "system"

----------------------------------------------------------------------------
(* Failures of the backend *)

\* C26: the failure of a chat or step-based call's backend request changes
\* nothing in the store: the conversation the call resolved to, newly created
\* or reused, stays registered with the call's user message as appended before
\* the request and with the updated_at that append set, and no conversation
\* ever holds an assistant message of a failed call.
C26_NoRollback ==
  [][ /\ \A k \in 1..Len(calls) :
           (calls[k].tool \in Tools /\ calls[k].status = "awaiting"
              /\ calls'[k].status = "failed") =>
             /\ conversations' = conversations
             /\ issued' = issued
      /\ Len(calls') = Len(calls) + 1 =>
           LET k == Len(calls')
               c == calls'[k]
           IN c.tool \in Tools =>
                /\ Has(conversations', c.convId)
                /\ Holds(getMessages(conversations', c.convId), User(k))
                /\ get(conversations', c.convId).updated_at = now
      /\ \A k \in 1..Len(calls') :
           calls'[k].status = "failed" =>
             \A i \in 1..Len(conversations') :
               ~Holds(conversations'[i].messages, Assistant(k))
    ]_vars

\* a chat call that created its conversation and a chat call that continued
\* it at a later time have both failed: the conversation is stored, holds the
\* two user messages and nothing else, and was last updated by the second
C26_Witness ==
  \E j, k \in 1..Len(calls) :
    /\ calls[j].status = "failed" /\ calls[k].status = "failed"
    /\ calls[j].created /\ calls[k].cont = calls[j].convId
    /\ Stored(calls[j].convId) = <<User(j), User(k)>>
    /\ get(conversations, calls[j].convId).created_at < now
    /\ get(conversations, calls[j].convId).updated_at = now

\* the response the host receives for invocation k
Received(k) == handleToolCall(calls[k].result)

\* C22: an invocation whose backend call failed has issued one backend request
\* and no further one, and its caller receives a response with isError: true
\* whose text carries the backend's failure message; the model-listing tool
\* included.
C22_BackendFailureSurfaced ==
  \A k \in 1..Len(calls) :
    calls[k].status = "failed" =>
      /\ calls[k].requests = 1
      /\ Received(k).kind = "returned"
      /\ Received(k).isError
      /\ Received(k).error

----------------------------------------------------------------------------
(* Streamed responses *)

\* where the lines of a body start: at its first character and after every
\* newline
StartsOf(body) == {1} \cup {i + 1 : i \in {j \in 1..Len(body) : body[j] = Newline}}

\* the line of body that starts at a: up to the next newline or the end
LineAt(body, a) ==
  LET ends == {i \in a..Len(body) : body[i] = Newline} \cup {Len(body) + 1}
      e == CHOOSE i \in ends : \A h \in ends : i <= h
  IN SubSeq(body, a, e - 1)

\* the lines of a body, in order
LinesOf(body) ==
  LET starts == StartsOf(body)
      Nth(k) == CHOOSE a \in starts : Cardinality({b \in starts : b < a}) = k - 1
  IN [k \in 1..Cardinality(starts) |-> LineAt(body, Nth(k))]

\* a non-blank well-formed line: digits, with blanks before and after only
WellFormed(line) ==
  \E a, b \in 1..Len(line) :
    /\ a <= b
    /\ \A i \in 1..Len(line) : IF a <= i /\ i <= b THEN line[i] \in Digits
                                 ELSE line[i] \in Blanks

\* the number a well-formed line denotes
Denoted(line) ==
  NumberOf(SelectSeq(line, LAMBDA ch : ch \in Digits))

\* what a body holds: the values of its well-formed lines, in order
Expected(body) ==
  LET good == SelectSeq(LinesOf(body), WellFormed)
  IN [i \in 1..Len(good) |-> Denoted(good[i])]

\* C23: however the body is cut into reads, chatStream has yielded, when it
\* returns, exactly the values of the non-blank well-formed lines of the body
\* in body order (a line cut between two reads counts as one line, a last line
\* without newline counts, a malformed line is passed over), and at every
\* moment before what it has yielded is a prefix of that.
C23_StreamParsing ==
  /\ stream.pc = "done" => stream.yielded = Expected(stream.body)
  /\ stream.pc = "reading" =>
       /\ Len(stream.yielded) <= Len(Expected(stream.body))
       /\ stream.yielded = SubSeq(Expected(stream.body), 1, Len(stream.yielded))

\* the body is a malformed line followed by the line 12 without a newline, a
\* read ended between the 1 and the 2, and the generator has returned having
\* yielded 12 alone
C23_Witness ==
  /\ stream.pc = "done"
  /\ stream.body = <<"x", Newline, "1", "2">>
  /\ stream.cut
  /\ stream.yielded = <<12>>

====
